---- MODULE Spec2Model ----
(***************************************************************************)
(* fast-dl: the parallel chunked downloader and decode pipeline of         *)
(* src/fast-dl/src/lib.rs (try_main), from the "already completed" filter  *)
(* to the exit code.                                                       *)
(*                                                                         *)
(* Integer widths are scaled: u64 is U64Bits bits wide, u32 is U32Bits     *)
(* bits wide and CHUNK_SIZE is 2^ChunkBits, so that the wrap-around of     *)
(* the source's arithmetic happens inside the modelled range.             *)
(***************************************************************************)
EXTENDS Integers, Sequences, FiniteSets, TLC

\* ---------------------------------------------------------------- bounds
U64Bits == 4
U32Bits == 2
ChunkBits == 1
MaxRetry == 1
\* Opts.network_threads and Opts.disk_threads of the modelled runs
N_net == 2
N_disk == 1

\* ------------------------------------------------------- program constants
\* RETRY_WAIT_BASE in milliseconds
RETRY_WAIT_BASE == 100

RECURSIVE Pow2(_)
Pow2(n) == IF n = 0 THEN 1 ELSE 2 * Pow2(n - 1)

U64 == Pow2(U64Bits)
U32 == Pow2(U32Bits)
CHUNK_SIZE == Pow2(ChunkBits)

Min(a, b) == IF a < b THEN a ELSE b

\* u64 / u32 arithmetic of a build without overflow checks
Wrap64(x) == x % U64
Wrap32(x) == x % U32

\* ------------------------------------------------ chunk range computation
\* (len + CHUNK_SIZE - 1) / CHUNK_SIZE in u64
total_file_chunks(len) == Wrap64(len + CHUNK_SIZE - 1) \div CHUNK_SIZE
\* whether len + CHUNK_SIZE - 1 leaves u64 (a panic under overflow checks)
total_overflows(len) == len + CHUNK_SIZE - 1 >= U64

range_begin(chunk_i) == Wrap64(chunk_i * CHUNK_SIZE)
range_end(len, chunk_i) == Min(len, Wrap64((chunk_i + 1) * CHUNK_SIZE))
range_size(len, chunk_i) == Wrap64(range_end(len, chunk_i) + U64 - range_begin(chunk_i))


\* ------------------------------------------------------------------ state
VARIABLES
    n_entries,        \* number of entries of the manifest (index.entries)
    dst0,             \* dst_path of each entry as it was before the run
    dst,              \* dst_path of each entry: [ex, len]
    tmp,              \* tmp_path of each entry: [ex, data]
    pc,               \* position of try_main
    idx,              \* position of try_main in the loop it is in
    todo_entries,     \* entries left after the filter, in manifest order
    content_lengths,  \* Content-Length of each todo entry, in order
    result,           \* what try_main returned
    net_sem,          \* permits available in net_sem
    disk_sem,         \* permits available in disk_sem
    head,             \* content_length_tasks: [st, res]
    chunk,            \* chunk_tasks of each entry
    file,             \* file_tasks: [st, i, err, why]
    headIssued,       \* entries for which a HEAD request was sent
    getIssued,        \* entries for which a GET request was sent
    plan,             \* the chunk range computation on its own: [st, len, i, ranges]
    run,              \* 1 in the first run over the output directory; in the second,
                      \* 2 when the first returned 0 and 3 when it returned 6
    codec             \* the object codec on its own: an encoder feeding a decode reader

vars == <<n_entries, dst0, dst, tmp, pc, idx, todo_entries, content_lengths, result,
          net_sem, disk_sem, head, chunk, file, headIssued, getIssued, plan, run, codec>>

pipeVars == <<n_entries, dst0, dst, tmp, pc, idx, todo_entries, content_lengths, result,
              net_sem, disk_sem, head, chunk, file, headIssued, getIssued, run>>

Entries == 1..n_entries

\* FinalFile.size of every entry of the manifest
FinalSize == 1
\* the manifest of the modelled runs: the size of each entry
Manifest == <<FinalSize, FinalSize>>

NoFile == [ex |-> FALSE, len |-> 0]
NoTmp == [ex |-> FALSE, data |-> <<>>]

\* Content-Length header of a HEAD response: absent, not a number, or a length
NoCL == -1
BadCL == -2
Lens == {0, CHUNK_SIZE, CHUNK_SIZE + 1, U64 - 1}

\* byte k (from 1) of the object the server holds; 0 is a byte never written
ObjByte(k) == k
IsObject(data) == Len(data) > 0 /\ \A k \in 1..Len(data) : data[k] = ObjByte(k)

Range(s) == {s[i] : i \in 1..Len(s)}

RECURSIVE SeqOfSet(_)
\* the elements of a set of numbers, in increasing order
SeqOfSet(S) ==
    IF S = {} THEN <<>>
    ELSE LET m == CHOOSE x \in S : \A y \in S : x <= y
         IN <<m>> \o SeqOfSet(S \ {m})

NoResponse == [ok |-> TRUE, status |-> 0, cl |-> NoCL]

\* the answer to a GET that was not answered yet
NoAnswer == -1

ChunkIdle == [st |-> "none", retry |-> 0, delay |-> 0, prev |-> 0, only503 |-> TRUE,
              why |-> "none", begin |-> 0, size |-> 0, ans |-> NoAnswer]

\* a settled chunk task: its locals are gone; what is kept is its window and
\* the answer it ended on
Settled(t, st, why) ==
    [ChunkIdle EXCEPT !.st = st, !.why = why, !.begin = t.begin, !.size = t.size,
                      !.only503 = t.only503 /\ why \in {"pow", "none"},
                      !.ans = IF st = "cancelled" THEN NoAnswer ELSE t.ans]

\* a chunk task between acquire_owned() and the release of its permit
HoldsPermit(t) == t.st \in {"request", "sleep", "body"}
\* a chunk task whose mapping exists
HoldsMapping(t) == t.st \in {"request", "sleep", "body", "released"}
ChunkSettled(t) == t.st \in {"ok", "io", "req", "panic"}

InitPipe(n) ==
    /\ n_entries = n
    /\ dst0 \in [1..n -> {NoFile, [ex |-> TRUE, len |-> FinalSize], [ex |-> TRUE, len |-> 0]}]
    /\ dst = dst0
    /\ tmp = [e \in 1..n |-> NoTmp]
    /\ pc = "filter"
    /\ idx = 1
    /\ todo_entries = <<>>
    /\ content_lengths = <<>>
    /\ result = "running"
    /\ net_sem = N_net
    /\ disk_sem = N_disk
    /\ head = [e \in 1..n |-> [st |-> "none", res |-> NoResponse]]
    /\ chunk = [e \in 1..n |-> <<>>]
    /\ file = [e \in 1..n |-> [st |-> "none", i |-> 1, err |-> "none", why |-> "none"]]
    /\ headIssued = {}
    /\ getIssued = {}
    /\ run = 1

PlanIdle == [st |-> "idle", len |-> 0, i |-> 0, ranges |-> <<>>]

CodecIdle == [st |-> "idle", from |-> "none", s |-> <<>>, buf |-> <<>>, head |-> 0,
              spos |-> 0, plain |-> <<>>, z |-> <<>>, pos |-> 0, header_skipped |-> FALSE,
              started |-> FALSE, out |-> <<>>, late |-> <<>>, err |-> "none", eof |-> FALSE]

Init == InitPipe(Len(Manifest)) /\ plan = PlanIdle /\ codec = CodecIdle


\* --------------------------------------------------------- runtime shutdown
\* try_main returning drops the runtime: every task suspended at an await is
\* dropped (its mapping and permit with it); a decode closure that is already
\* running on the blocking pool runs to its end.
CancelHead(h) == IF h.st \in {"wait", "sent"} THEN [h EXCEPT !.st = "cancelled"] ELSE h
CancelChunk(t) ==
    IF t.st \in {"wait", "request", "sleep", "body"}
    THEN Settled(t, "cancelled", "none")
    ELSE IF t.st = "released" THEN Settled(t, "ok", "none") ELSE t
CancelFile(f) == IF f.st \in {"await", "blocking"} THEN [f EXCEPT !.st = "cancelled"] ELSE f

Return(code) ==
    /\ result' = code
    /\ pc' = "returned"
    /\ head' = [e \in Entries |-> CancelHead(head[e])]
    /\ chunk' = [e \in Entries |-> [c \in 1..Len(chunk[e]) |-> CancelChunk(chunk[e][c])]]
    /\ file' = [e \in Entries |-> CancelFile(file[e])]
    /\ net_sem' = N_net

\* ------------------------------------------------------------ work planner
\* the dst_path of e exists and its length is the manifest's size
IsCompleteInverted(e) == dst[e].ex /\ dst[e].len # FinalSize
IsComplete(e) == dst[e].ex /\ dst[e].len = FinalSize

\* lib.rs 225-259: the filter, then one HEAD task spawned per entry left
MainFilter ==
    /\ pc = "filter"
    /\ LET todo == SeqOfSet({e \in Entries : ~IsComplete(e)})
       IN /\ todo_entries' = todo
          /\ head' = [e \in Entries |->
                        IF e \in Range(todo) THEN [head[e] EXCEPT !.st = "wait"] ELSE head[e]]
    /\ pc' = "heads"
    /\ idx' = 1
    /\ UNCHANGED <<n_entries, dst0, dst, tmp, content_lengths, result, net_sem, disk_sem,
                   chunk, file, headIssued, getIssued, plan, run, codec>>

\* an OwnedSemaphorePermit is dropped: the permits left afterwards
ReleasedNothing(avail) == avail
Released(avail) == avail + 1

\* a task may take a permit of a semaphore with `avail` permits left
CanAcquireAlways(avail) == TRUE
CanAcquire(avail) == avail > 0

\* lib.rs 253-254: the HEAD task takes its permit and sends the request
HeadSend(e) ==
    /\ result = "running"
    /\ head[e].st = "wait"
    /\ CanAcquire(net_sem)
    /\ net_sem' = net_sem - 1
    /\ head' = [head EXCEPT ![e].st = "sent"]
    /\ headIssued' = headIssued \cup {e}
    /\ UNCHANGED <<n_entries, dst0, dst, tmp, pc, idx, todo_entries, content_lengths, result,
                   disk_sem, chunk, file, getIssued, plan, run, codec>>

\* what the server may answer to a HEAD: a transport error, or a response of
\* some status with or without a Content-Length
HeadResponses ==
    {[ok |-> FALSE, status |-> 0, cl |-> NoCL]} \cup
    [ok : {TRUE}, status : {200, 404}, cl : Lens \cup {NoCL, BadCL}]

\* lib.rs 254-256: the response arrives, the permit is dropped
HeadResponse(e) ==
    /\ result = "running"
    /\ head[e].st = "sent"
    /\ \E r \in HeadResponses : head' = [head EXCEPT ![e] = [st |-> "done", res |-> r]]
    /\ net_sem' = Released(net_sem)
    /\ UNCHANGED <<n_entries, dst0, dst, tmp, pc, idx, todo_entries, content_lengths, result,
                   disk_sem, chunk, file, headIssued, getIssued, plan, run, codec>>

\* lib.rs 265-281: what the loop makes of one HEAD result: "err" (the ? of
\* t.await?? or of to_str()?.parse()?), "none" (no header) or "some"
HeadVerdictLenient(r) == IF ~r.ok \/ r.cl = BadCL THEN "err" ELSE "some"
HeadVerdict(r) ==
    IF ~r.ok THEN "err"
    ELSE IF r.cl = NoCL THEN "none"
    ELSE IF r.cl = BadCL THEN "err"
    ELSE "some"

RECURSIVE SumSeq(_)
SumSeq(s) == IF s = <<>> THEN 0 ELSE s[1] + SumSeq(Tail(s))
\* lib.rs 261, 269: the running total, a u64
total_content_length == Wrap64(SumSeq(content_lengths))

\* lib.rs 264-282: one turn of the loop over the HEAD tasks
MainAwaitHead ==
    /\ pc = "heads"
    /\ idx <= Len(todo_entries)
    /\ LET e == todo_entries[idx]
           r == head[e].res
           v == HeadVerdict(r)
       IN /\ head[e].st = "done"
          /\ IF v = "err"
             THEN Return("Err") /\ UNCHANGED <<idx, content_lengths>>
             ELSE IF v = "none"
             THEN Return("Ok5") /\ UNCHANGED <<idx, content_lengths>>
             ELSE LET content_length == IF r.cl < 0 THEN 0 ELSE r.cl
                  IN \/ /\ content_lengths' = Append(content_lengths, content_length)
                        /\ idx' = idx + 1
                        /\ head' = [head EXCEPT ![e] = [st |-> "taken",
                                                        res |-> [r EXCEPT !.status = 0]]]
                        /\ UNCHANGED <<pc, result, chunk, file, net_sem>>
                     \* total_content_length += content_length under overflow checks
                     \/ /\ total_content_length + content_length >= U64
                        /\ Return("Panic")
                        /\ UNCHANGED <<idx, content_lengths>>
    /\ UNCHANGED <<n_entries, dst0, dst, tmp, todo_entries, disk_sem, headIssued, getIssued,
                   plan, run, codec>>


\* ------------------------------------------------------- chunk and file tasks
\* lib.rs 303-358: the chunk tasks of an entry of length len, as spawned by a
\* build without overflow checks
ChunkTasks(len) ==
    [chunk_i \in 1..total_file_chunks(len) |->
        [ChunkIdle EXCEPT !.st = "wait",
                          !.begin = range_begin(chunk_i - 1),
                          !.size = range_size(len, chunk_i - 1)]]

\* lib.rs 292-294: the Content-Length zipped with entry e
ContentLength(e) == content_lengths[CHOOSE k \in 1..Len(todo_entries) : todo_entries[k] = e]

\* lib.rs 292-392: every chunk task and file task is spawned; under overflow
\* checks the computation of total_file_chunks may panic instead
MainSpawn ==
    /\ pc = "heads"
    /\ idx > Len(todo_entries)
    /\ \/ /\ chunk' = [e \in Entries |->
                        IF e \in Range(todo_entries)
                        THEN ChunkTasks(ContentLength(e))
                        ELSE chunk[e]]
          /\ file' = [e \in Entries |->
                        IF e \in Range(todo_entries)
                        THEN [file[e] EXCEPT !.st = "await"] ELSE file[e]]
          /\ pc' = "files"
          /\ idx' = 1
          /\ UNCHANGED <<result, head, net_sem>>
       \/ /\ \E k \in 1..Len(content_lengths) : total_overflows(content_lengths[k])
          /\ Return("Panic")
          /\ UNCHANGED idx
    /\ UNCHANGED <<n_entries, dst0, dst, tmp, todo_entries, content_lengths, disk_sem,
                   headIssued, getIssued, plan, run, codec>>

\* create_mmap(path, len, offset, size) on a file: the file exists afterwards,
\* is len bytes long and keeps the bytes it had
Mapped(f, len) ==
    [ex |-> TRUE,
     data |-> [k \in 1..len |-> IF f.ex /\ k <= Len(f.data) THEN f.data[k] ELSE 0]]

\* lib.rs 317-324: the chunk task takes its permit, then the mapping is
\* created (or fails, and the permit is dropped with the task) and the first
\* request sent; nothing is awaited in between
ChunkStart(e, c) ==
    /\ result = "running"
    /\ chunk[e][c].st = "wait"
    /\ CanAcquire(net_sem)
    /\ \/ /\ tmp' = [tmp EXCEPT ![e] = Mapped(tmp[e], ContentLength(e))]
          /\ chunk' = [chunk EXCEPT ![e][c].st = "request"]
          /\ getIssued' = getIssued \cup {e}
          /\ net_sem' = net_sem - 1
       \/ /\ chunk' = [chunk EXCEPT ![e][c] = Settled(@, "io", "mmap")]
          /\ UNCHANGED <<tmp, getIssued, net_sem>>
    /\ UNCHANGED <<n_entries, dst0, dst, pc, idx, todo_entries, content_lengths, result,
                   disk_sem, head, file, headIssued, plan, run, codec>>

\* 2u32.pow(retry): the value of a build without overflow checks, and whether
\* the power leaves u32 (a panic under overflow checks)
pow_overflows(retry) == Pow2(retry) >= U32
pow2_u32(retry) == Wrap32(Pow2(retry))

\* lib.rs 329 and 344: RETRY_WAIT_BASE * 2u32.pow(retry), in milliseconds
backoff_delay(retry) == RETRY_WAIT_BASE * pow2_u32(retry)

\* the answers to a ranged GET that make the task wait and retry: a transport
\* error (0) or a response whose status is not 206
RetryAnswers == {0, 200, 503}

\* lib.rs 326-328: the answer a (a status, or 0 for a transport error) lets
\* the task go on to read the body
AcceptedNever(a) == FALSE
Accepted(a) == a = 206

\* lib.rs 324-351: the answer to the GET arrives. A 206 goes on to the body;
\* anything else computes the delay and sleeps. cap bounds the retry counter.
ChunkResponse(e, c, cap, answers) ==
    /\ result = "running"
    /\ chunk[e][c].st = "request"
    /\ LET t == chunk[e][c]
       IN \E a \in answers \cup {206} :
            IF Accepted(a)
            THEN /\ chunk' = [chunk EXCEPT ![e][c].st = "body", ![e][c].ans = a]
                 /\ UNCHANGED net_sem
            ELSE /\ t.retry < cap
                 /\ \/ /\ chunk' = [chunk EXCEPT ![e][c] =
                                       [t EXCEPT !.st = "sleep",
                                                 !.delay = backoff_delay(t.retry),
                                                 !.prev = t.delay,
                                                 !.only503 = t.only503 /\ a = 503,
                                                 !.ans = a]]
                       /\ UNCHANGED net_sem
                    \/ /\ pow_overflows(t.retry)
                       /\ chunk' = [chunk EXCEPT ![e][c] =
                                       Settled([t EXCEPT !.only503 = @ /\ a = 503,
                                                         !.ans = a],
                                               "panic", "pow")]
                       /\ net_sem' = Released(net_sem)
    /\ UNCHANGED <<n_entries, dst0, dst, tmp, pc, idx, todo_entries, content_lengths, result,
                   disk_sem, head, file, headIssued, getIssued, plan, run, codec>>

\* lib.rs 334-336 and 349-350: the sleep ends, retry += 1, the request is sent again
ChunkWake(e, c) ==
    /\ result = "running"
    /\ chunk[e][c].st = "sleep"
    /\ chunk' = [chunk EXCEPT ![e][c].st = "request", ![e][c].retry = @ + 1]
    /\ getIssued' = getIssued \cup {e}
    /\ UNCHANGED <<n_entries, dst0, dst, tmp, pc, idx, todo_entries, content_lengths, result,
                   net_sem, disk_sem, head, file, headIssued, plan, run, codec>>


\* mapping.copy_from_slice(body) for the window that starts at begin
WriteWindow(data, begin, size) ==
    [k \in 1..Len(data) |-> IF k > begin /\ k <= begin + size THEN ObjByte(k) ELSE data[k]]

\* the lengths the body of a 206 may have for a window of size bytes
BodyLens(size) == {size, size + 1} \cup (IF size > 0 THEN {size - 1} ELSE {})

\* lib.rs 339: mapping.copy_from_slice(bytes) panics when the two lengths differ
copy_never_panics(blen, size) == FALSE
copy_panics(blen, size) == blen # size

\* lib.rs 338-341 and 355: the body of the 206 arrives (or fails); a body of
\* the window's length is copied and flushed and the permit dropped, a body
\* of another length makes copy_from_slice panic
ChunkBody(e, c) ==
    /\ result = "running"
    /\ chunk[e][c].st = "body"
    /\ LET t == chunk[e][c]
       IN \/ /\ chunk' = [chunk EXCEPT ![e][c] = Settled(t, "req", "body")]
             /\ UNCHANGED tmp
          \/ \E blen \in BodyLens(t.size) :
               IF copy_panics(blen, t.size)
               THEN /\ chunk' = [chunk EXCEPT ![e][c] = Settled(t, "panic", "len")]
                    /\ UNCHANGED tmp
               ELSE /\ tmp' = [tmp EXCEPT
                                  ![e].data = WriteWindow(@, t.begin, Min(blen, t.size))]
                    /\ \/ chunk' = [chunk EXCEPT ![e][c].st = "released"]
                       \/ chunk' = [chunk EXCEPT ![e][c] = Settled(t, "io", "flush")]
    /\ net_sem' = Released(net_sem)
    /\ UNCHANGED <<n_entries, dst0, dst, pc, idx, todo_entries, content_lengths, result,
                   disk_sem, head, file, headIssued, getIssued, plan, run, codec>>

\* lib.rs 356-357: Ok(()) is returned and the mapping dropped
ChunkFinish(e, c) ==
    /\ result = "running"
    /\ chunk[e][c].st = "released"
    /\ chunk' = [chunk EXCEPT ![e][c] = Settled(@, "ok", "none")]
    /\ UNCHANGED <<n_entries, dst0, dst, tmp, pc, idx, todo_entries, content_lengths, result,
                   net_sem, disk_sem, head, file, headIssued, getIssued, plan, run, codec>>

\* the TaskError a settled chunk task hands to the file task
ChunkError(t) ==
    IF t.st = "io" THEN "Io" ELSE IF t.st = "req" THEN "Request" ELSE "Join"

\* the file task may go past chunk task t
ChunkAwaitedAny(t) == TRUE
ChunkAwaited(t) == ChunkSettled(t)

\* lib.rs 366-368: the file task awaits its next chunk task
FileAwait(e) ==
    /\ result = "running"
    /\ file[e].st = "await"
    /\ file[e].i <= Len(chunk[e])
    /\ LET t == chunk[e][file[e].i]
       IN /\ ChunkAwaited(t)
          /\ IF t.st \in {"io", "req", "panic"}
             THEN file' = [file EXCEPT ![e].st = "err", ![e].err = ChunkError(t),
                                       ![e].why = "chunk"]
             ELSE file' = [file EXCEPT ![e].i = @ + 1]
    /\ UNCHANGED <<n_entries, dst0, dst, tmp, pc, idx, todo_entries, content_lengths, result,
                   net_sem, disk_sem, head, chunk, headIssued, getIssued, plan, run, codec>>

\* lib.rs 369-371: every chunk task returned Ok, the decode closure is handed
\* to the blocking pool
FileSpawnBlocking(e) ==
    /\ result = "running"
    /\ file[e].st = "await"
    /\ file[e].i > Len(chunk[e])
    /\ file' = [file EXCEPT ![e].st = "blocking"]
    /\ UNCHANGED <<n_entries, dst0, dst, tmp, pc, idx, todo_entries, content_lengths, result,
                   net_sem, disk_sem, head, chunk, headIssued, getIssued, plan, run, codec>>

\* lib.rs 372: disk_sem_clone.acquire_owned() builds a future that is never
\* awaited, so no permit is taken: the closure starts whatever disk_sem holds
DecodeMayStart(avail) == TRUE

\* lib.rs 372-376: the closure starts: dst_path is created (or truncated),
\* then tmp_path is opened
DecodeStart(e) ==
    /\ result = "running"
    /\ file[e].st = "blocking"
    /\ DecodeMayStart(disk_sem)
    /\ dst' = [dst EXCEPT ![e] = [ex |-> TRUE, len |-> 0]]
    /\ IF tmp[e].ex
       THEN file' = [file EXCEPT ![e].st = "decoding"]
       ELSE file' = [file EXCEPT ![e].st = "err", ![e].err = "Io", ![e].why = "NotFound"]
    /\ UNCHANGED <<n_entries, dst0, tmp, pc, idx, todo_entries, content_lengths, result,
                   net_sem, disk_sem, head, chunk, headIssued, getIssued, plan, run, codec>>

\* the InvalidData errors decode_sync reports for the header of a staged object
HeaderErrors == {"BadMagic", "BadSize"}
\* the lengths the payload of an object may have
PayloadLens == {FinalSize, FinalSize + 1}

\* lib.rs 377-385: the copy through decode_sync ends; on success the payload
\* is in dst_path and tmp_path is removed. The closure also runs to its end
\* when try_main has returned.
DecodeEnd(e) ==
    /\ file[e].st = "decoding"
    /\ \/ /\ IsObject(tmp[e].data)
          /\ \E plen \in PayloadLens :
               dst' = [dst EXCEPT ![e] = [ex |-> TRUE, len |-> plen]]
          /\ tmp' = [tmp EXCEPT ![e] = NoTmp]
          /\ file' = [file EXCEPT ![e].st = "ok"]
       \/ /\ \E o \in IF IsObject(tmp[e].data) THEN HeaderErrors ELSE {"Corrupt"} :
               file' = [file EXCEPT ![e].st = "err", ![e].err = "Io", ![e].why = o]
          /\ UNCHANGED <<dst, tmp>>
    /\ UNCHANGED <<n_entries, dst0, pc, idx, todo_entries, content_lengths, result,
                   net_sem, disk_sem, head, chunk, headIssued, getIssued, plan, run, codec>>

\* ---------------------------------------------------------------- supervisor
\* lib.rs 396: the result of file task f is an Err
IsErrNever(f) == FALSE
IsErr(f) == f.st = "err"

\* lib.rs 394-400: one turn of the loop over the file tasks
MainAwaitFile ==
    /\ pc = "files"
    /\ idx <= Len(todo_entries)
    /\ LET e == todo_entries[idx]
       IN /\ file[e].st \in {"ok", "err"}
          /\ IF IsErr(file[e])
             THEN Return("Ok6") /\ UNCHANGED idx
             ELSE /\ idx' = idx + 1
                  /\ UNCHANGED <<pc, result, head, chunk, file, net_sem>>
    /\ UNCHANGED <<n_entries, dst0, dst, tmp, todo_entries, content_lengths, disk_sem,
                   headIssued, getIssued, plan, run, codec>>

\* lib.rs 402-404
MainDone ==
    /\ pc = "files"
    /\ idx > Len(todo_entries)
    /\ Return("Ok0")
    /\ UNCHANGED <<n_entries, dst0, dst, tmp, idx, todo_entries, content_lengths, disk_sem,
                   headIssued, getIssued, plan, run, codec>>

\* ------------------------------------------------------------ specifications
Step(cap, answers) ==
    \/ MainFilter
    \/ \E e \in Entries : HeadSend(e)
    \/ \E e \in Entries : HeadResponse(e)
    \/ MainAwaitHead
    \/ MainSpawn
    \/ \E e \in Entries : \E c \in 1..Len(chunk[e]) : ChunkStart(e, c)
    \/ \E e \in Entries : \E c \in 1..Len(chunk[e]) : ChunkResponse(e, c, cap, answers)
    \/ \E e \in Entries : \E c \in 1..Len(chunk[e]) : ChunkWake(e, c)
    \/ \E e \in Entries : \E c \in 1..Len(chunk[e]) : ChunkBody(e, c)
    \/ \E e \in Entries : \E c \in 1..Len(chunk[e]) : ChunkFinish(e, c)
    \/ \E e \in Entries : FileAwait(e)
    \/ \E e \in Entries : FileSpawnBlocking(e)
    \/ \E e \in Entries : DecodeStart(e)
    \/ \E e \in Entries : DecodeEnd(e)
    \/ MainAwaitFile
    \/ MainDone

Next == Step(MaxRetry, {503})

Spec == Init /\ [][Next]_vars

\* the same runs under a scheduler that leaves no runnable task waiting for
\* ever and a server that answers every request; the cap on the retry counter
\* makes the server answer 206 after at most MaxRetry other answers
SpecLive == Init /\ [][Next]_vars /\ WF_vars(Next)


\* -------------------------------------- the chunk range computation on its own
\* lib.rs 300-312 for one Content-Length, drawn from all of u64
InitChunks ==
    /\ InitPipe(0)
    /\ plan \in [st : {"start"}, len : 0..(U64 - 1), i : {0}, ranges : {<<>>}]
    /\ codec = CodecIdle

\* lib.rs 300: total_file_chunks, which panics under overflow checks when the
\* sum leaves u64
PlanTotal ==
    /\ plan.st = "start"
    /\ \/ plan' = [plan EXCEPT !.st = "loop"]
       \/ /\ total_overflows(plan.len)
          /\ plan' = [plan EXCEPT !.st = "panic"]
    /\ UNCHANGED <<pipeVars, codec>>

\* lib.rs 303-312: one turn of the loop over chunk_i
PlanLoop ==
    /\ plan.st = "loop"
    /\ plan.i < total_file_chunks(plan.len)
    /\ plan' = [plan EXCEPT !.i = @ + 1,
                            !.ranges = Append(@, [begin |-> range_begin(plan.i),
                                                  end |-> range_end(plan.len, plan.i)])]
    /\ UNCHANGED <<pipeVars, codec>>

\* lib.rs 303: the loop ends
PlanDone ==
    /\ plan.st = "loop"
    /\ plan.i >= total_file_chunks(plan.len)
    /\ plan' = [plan EXCEPT !.st = "done"]
    /\ UNCHANGED <<pipeVars, codec>>

NextChunks == PlanTotal \/ PlanLoop \/ PlanDone

SpecChunks == InitChunks /\ [][NextChunks]_vars

\* ------------------------------------------- one work item, retried at length
InitRetry == InitPipe(1) /\ plan = PlanIdle /\ codec = CodecIdle

NextRetry == Step(U32Bits + 1, RetryAnswers)

SpecRetry == InitRetry /\ [][NextRetry]_vars


\* --------------------------------------------- the program run a second time
\* try_main is entered again, with the same manifest, over the output
\* directory the first run left when it returned `code`; run becomes r
RerunFrom(code, r) ==
    /\ run = 1
    /\ result = code
    /\ \A e \in Entries : file[e].st # "decoding"
    /\ run' = r
    /\ dst0' = dst
    /\ pc' = "filter"
    /\ idx' = 1
    /\ todo_entries' = <<>>
    /\ content_lengths' = <<>>
    /\ result' = "running"
    /\ net_sem' = N_net
    /\ head' = [e \in Entries |-> [st |-> "none", res |-> NoResponse]]
    /\ chunk' = [e \in Entries |-> <<>>]
    /\ file' = [e \in Entries |-> [st |-> "none", i |-> 1, err |-> "none", why |-> "none"]]
    /\ headIssued' = {}
    /\ getIssued' = {}
    /\ UNCHANGED <<n_entries, dst, tmp, disk_sem, plan, codec>>

\* the second run after a first run that returned 0 (run = 2)
Rerun == RerunFrom("Ok0", 2)
\* the second run after a first run that returned 6 and may have left a
\* tmp_path behind (run = 3)
RerunFailed == RerunFrom("Ok6", 3)

InitTwice == InitPipe(1) /\ plan = PlanIdle /\ codec = CodecIdle

NextTwice == Step(MaxRetry, {503}) \/ Rerun \/ RerunFailed

SpecTwice == InitTwice /\ [][NextTwice]_vars


\* ------------------------------------------------ the object codec on its own
\* src/la-tools/src/git_object.rs. Bytes are their ASCII codes.
MaxPayload == 3
MaxTail == 3
MaxBuf == 2
\* the length of a payload whose decimal size has two digits
LongLen == 10

NUL == 0
\* b"blob "
Magic == <<98, 108, 111, 98, 32>>
IsDigitOrAny(b) == b # NUL
IsDigit(b) == b >= 48 /\ b <= 57

RECURSIVE Decimal(_)
\* format!("{}", n): the decimal digits of n
Decimal(n) == IF n < 10 THEN <<48 + n>> ELSE Decimal(n \div 10) \o <<48 + (n % 10)>>

\* git_object.rs 54: format!("blob {}\0", size).as_bytes()
PrefixNoNul(size) == Magic \o Decimal(size)
Prefix(size) == Magic \o Decimal(size) \o <<NUL>>

\* ZlibEncoder / ZlibDecoder: a zlib stream is a header byte, the data, and a
\* checksum of the data; the decoder hands out the data as it inflates it and
\* verifies the checksum when it reaches the end
ZMagic == 120
ChecksumMod == 251
Checksum(d) == SumSeq(d) % ChecksumMod
Deflate(d) == <<ZMagic>> \o d \o <<Checksum(d)>>
Inflated(z) == SubSeq(z, 2, Len(z) - 1)
Sound(z) == z[1] = ZMagic /\ z[Len(z)] = Checksum(Inflated(z))
\* a zlib stream whose checksum does not fit its data
Damaged(z) == [z EXCEPT ![Len(z)] = (@ + 1) % ChecksumMod]

RECURSIVE SeqsUpTo(_, _)
\* every sequence over S of at most n elements
SeqsUpTo(S, n) ==
    IF n = 0 THEN {<<>>}
    ELSE LET shorter == SeqsUpTo(S, n - 1)
         IN shorter \cup {Append(q, b) : q \in shorter, b \in S}

\* the payloads given to encode_sync: every byte string of at most MaxPayload
\* bytes over NUL, '0' and 'x', and one of LongLen bytes
PayloadBytes == {NUL, 48, 120}
Payloads == SeqsUpTo(PayloadBytes, MaxPayload) \cup {[k \in 1..LongLen |-> 120]}

\* the decompressed streams given to decode_sync: "blob ", "blob" and two
\* corrupted magics, followed by any bytes over NUL, '/', '0', '9', ':' and 'x'
Heads == {Magic, SubSeq(Magic, 1, 4), <<66>> \o Tail(Magic), SubSeq(Magic, 1, 4) \o <<9>>}
TailBytes == {NUL, 47, 48, 57, 58, 120}
\* and streams in which a well-formed object, "blob 0" NUL 'x', follows a
\* corrupted magic or a size that is not a number
Restarts == {h \o Magic \o <<48, NUL, 120>> : h \in {<<66>> \o Tail(Magic), Magic \o <<58>>}}
Streams == {h \o t : h \in Heads, t \in SeqsUpTo(TailBytes, MaxTail)} \cup Restarts

\* git_object.rs 52-58: encode_sync(size, read); the ZlibEncoder has not
\* pulled anything yet
encode_sync(size, s) ==
    [CodecIdle EXCEPT !.st = "encode", !.from = "encode", !.s = s, !.buf = Prefix(size)]

\* git_object.rs 60-65: decode_sync(read) over the zlib stream z
decode_sync(c, z) ==
    [c EXCEPT !.st = "decode", !.z = z, !.pos = 0, !.header_skipped = FALSE]

InitCodec ==
    /\ InitPipe(0)
    /\ plan = PlanIdle
    /\ codec \in {encode_sync(Len(s), s) : s \in Payloads}
             \cup {decode_sync([CodecIdle EXCEPT !.from = "stream"], z) :
                      z \in {Deflate(d) : d \in Streams}
                            \cup {Damaged(Deflate(d)) : d \in Streams}}

\* git_object.rs 43-50: U8ReadSync::read into a buffer of n bytes
U8ReadSync_amt(buf, hd, n) == Min(Len(buf) - hd, n)

\* git_object.rs 57: the ZlibEncoder reads n bytes from prefix.chain(read): the
\* prefix while it has bytes left, then the payload; when both are at their
\* end the zlib stream is complete, and is handed to decode_sync
EncodeRead(n) ==
    /\ codec.st = "encode"
    /\ LET amt == U8ReadSync_amt(codec.buf, codec.head, n)
           rest == Min(Len(codec.s) - codec.spos, n)
       IN IF amt > 0
          THEN codec' = [codec EXCEPT
                            !.plain = @ \o SubSeq(codec.buf, codec.head + 1, codec.head + amt),
                            !.head = @ + amt]
          ELSE IF rest > 0
          THEN codec' = [codec EXCEPT
                            !.plain = @ \o SubSeq(codec.s, codec.spos + 1, codec.spos + rest),
                            !.spos = @ + rest]
          ELSE codec' = decode_sync(codec, Deflate(codec.plain))
    /\ UNCHANGED <<pipeVars, plan>>

\* the error of read_exact when the stream ends early
ShortRead(sound) == IF sound THEN "Eof" ELSE "Corrupt"

RECURSIVE SizeLoop(_, _, _)
\* git_object.rs 27-36: the loop over the bytes of the size, from position pos
SizeLoop(d, pos, sound) ==
    IF pos >= Len(d) THEN [err |-> ShortRead(sound), pos |-> Len(d)]
    ELSE IF d[pos + 1] = NUL THEN [err |-> "none", pos |-> pos + 1]
    ELSE IF ~IsDigit(d[pos + 1]) THEN [err |-> "BadSize", pos |-> pos + 1]
    ELSE SizeLoop(d, pos + 1, sound)

\* git_object.rs 19-38: the header is read from position pos of the stream
SkipHeader(d, pos, sound) ==
    IF pos + 5 > Len(d) THEN [err |-> ShortRead(sound), pos |-> Len(d)]
    ELSE IF SubSeq(d, pos + 1, pos + 5) # Magic THEN [err |-> "BadMagic", pos |-> pos + 5]
    ELSE SizeLoop(d, pos + 5, sound)

\* a read that returned Err(e), the inner reader left at position pos
ReadFailed(c, e, pos) ==
    [c EXCEPT !.started = TRUE, !.pos = pos, !.err = IF @ = "none" THEN e ELSE @]

\* git_object.rs 18-40: GitObjectReadSync::read into a buffer of n bytes. The
\* bytes returned before the first error are gathered in out, those returned
\* by reads after an error in late.
DecodeRead(n) ==
    /\ codec.st = "decode"
    /\ LET d == Inflated(codec.z)
           sound == Sound(codec.z)
           h == IF codec.header_skipped
                THEN [err |-> "none", pos |-> codec.pos]
                ELSE SkipHeader(d, codec.pos, sound)
           amt == Min(n, Len(d) - h.pos)
           bytes == SubSeq(d, h.pos + 1, h.pos + amt)
       IN IF h.err # "none"
          THEN codec' = ReadFailed(codec, h.err, h.pos)
          ELSE IF amt = 0 /\ ~sound
          THEN codec' = ReadFailed([codec EXCEPT !.header_skipped = TRUE], "Corrupt", h.pos)
          ELSE codec' = [codec EXCEPT
                            !.header_skipped = TRUE,
                            !.started = TRUE,
                            !.pos = h.pos + amt,
                            !.eof = (amt = 0),
                            !.out = IF codec.err = "none" THEN @ \o bytes ELSE @,
                            !.late = IF codec.err = "none" THEN @ ELSE @ \o bytes]
    /\ UNCHANGED <<pipeVars, plan>>

NextCodec ==
    \/ \E n \in 1..MaxBuf : EncodeRead(n)
    \/ \E n \in 1..MaxBuf : DecodeRead(n)

SpecCodec == InitCodec /\ [][NextCodec]_vars


\* ==================================================================== claims
Todo == Range(todo_entries)
Chunks(e) == 1..Len(chunk[e])

\* the tasks that hold a permit of net_sem
HeadHolders == {e \in Entries : head[e].st = "sent"}
ChunkIds == UNION {{<<e, c>> : c \in Chunks(e)} : e \in Entries}
ChunkHolders == {ec \in ChunkIds : HoldsPermit(chunk[ec[1]][ec[2]])}
Waiting == \E e \in Entries : \E c \in Chunks(e) : chunk[e][c].st = "wait"

\* C1: at any moment the HEAD tasks between acquire and response and the chunk
\* tasks between acquire and completion (sleeping ones included) are at most
\* N_net, counted together.
C1_NetCap == Cardinality(HeadHolders) + Cardinality(ChunkHolders) <= N_net

\* C1 witness: the pool is exhausted, one holder sleeps between two attempts
\* and another chunk task waits for a permit.
C1_Witness ==
    /\ Cardinality(ChunkHolders) = N_net
    /\ Waiting
    /\ \E e \in Entries : \E c \in Chunks(e) : chunk[e][c].st = "sleep"


\* the blocking-pool closures between the start of decompression and its end
Decoding == {e \in Entries : file[e].st = "decoding"}

\* C2: at no point do more than N_disk decode steps run at the same time.
C2_DiskCap == Cardinality(Decoding) <= N_disk

\* the window of chunk task t is written in the staging file f
WindowWritten(f, t) ==
    /\ f.ex
    /\ \A k \in (t.begin + 1)..(t.begin + t.size) : k <= Len(f.data) /\ f.data[k] = ObjByte(k)

\* C3: while the decode step of a work item runs, every chunk task of the item
\* has returned Ok, has written its window and holds no mapping.
C3_DecodeAfterChunks ==
    \A e \in Entries :
        file[e].st = "decoding" =>
            \A c \in Chunks(e) :
                /\ chunk[e][c].st = "ok"
                /\ ~HoldsMapping(chunk[e][c])
                /\ WindowWritten(tmp[e], chunk[e][c])

\* C3 witness: a work item of two chunks is being decoded.
C3_Witness == \E e \in Entries : file[e].st = "decoding" /\ Len(chunk[e]) = 2

\* C4: a non-zero exit code is returned only after every file task has settled.
C4_ReturnAfterAllSettled ==
    result = "Ok6" => \A e \in Todo : file[e].st \in {"ok", "err"}

\* the decode step of e failed on the staged object
DecodeFailed(e) == file[e].st = "err" /\ file[e].why \in {"BadMagic", "BadSize", "Corrupt"}

\* C5: when the decode step of a work item fails and dst_path did not exist
\* before the run, the run exits with code 6, dst_path still does not exist
\* and tmp_path remains.
C5_FailedDecodeLeavesNoDst ==
    \A e \in Entries :
        (DecodeFailed(e) /\ ~dst0[e].ex) =>
            /\ ~dst[e].ex
            /\ tmp[e].ex
            /\ (result # "running" => result = "Ok6")

\* dst_path of e was there before the run with the manifest's size
CompleteAtPlanning(e) == dst0[e].ex /\ dst0[e].len = FinalSize

\* C6: for an entry whose dst_path is complete at planning time no HEAD and no
\* GET is sent, no task is spawned and neither tmp_path nor dst_path is touched.
C6_CompleteNeverDownloaded ==
    \A e \in Entries :
        CompleteAtPlanning(e) =>
            /\ e \notin headIssued
            /\ e \notin getIssued
            /\ head[e].st = "none"
            /\ chunk[e] = <<>>
            /\ file[e].st = "none"
            /\ dst[e] = dst0[e]
            /\ tmp[e] = NoTmp

\* C6 witness: a run ended with 0 that skipped one entry and downloaded another.
C6_Witness ==
    /\ result = "Ok0"
    /\ \E e \in Entries : CompleteAtPlanning(e)
    /\ \E e \in Entries : e \in getIssued /\ file[e].st = "ok"

\* the HEAD response of e arrived and has no Content-Length
OmitsContentLength(e) ==
    head[e].st \in {"done", "taken"} /\ head[e].res.ok /\ head[e].res.cl = NoCL
\* the HEAD results of all work items before e were accepted by the loop
EarlierAccepted(e) ==
    \A k \in 1..Len(todo_entries) :
        todo_entries[k] < e => head[todo_entries[k]].st = "taken"

\* C7 (as stated): if the HEAD response of any work item omits Content-Length,
\* the run exits with code 5 and no chunk GET is ever issued.
C7_Original ==
    \A e \in Entries :
        OmitsContentLength(e) =>
            /\ getIssued = {}
            /\ (result # "running" => result = "Ok5")

\* C7 (amended): if the HEAD response of a work item omits Content-Length, no
\* chunk GET is ever issued and the run does not end with 0 or 6: it exits
\* with code 5 when the HEAD results of all earlier work items were accepted,
\* and otherwise with 5 or with the propagated error of an earlier HEAD.
C7_Amended ==
    \A e \in Entries :
        OmitsContentLength(e) =>
            /\ getIssued = {}
            /\ pc \in {"heads", "returned"}
            /\ (result # "running" => result \in {"Ok5", "Err", "Panic"})
            /\ (result # "running" /\ EarlierAccepted(e) => result = "Ok5")

\* C7 witness: the second work item's HEAD response has no Content-Length, the
\* first one's was accepted, and the run returned 5.
C7_Witness ==
    /\ result = "Ok5"
    /\ Len(todo_entries) = 2
    /\ OmitsContentLength(todo_entries[2])
    /\ head[todo_entries[1]].st = "taken"


\* the chunk ranges that contain offset k
Covering(ranges, k) == {i \in 1..Len(ranges) : ranges[i].begin <= k /\ k < ranges[i].end}
RangeLengths(ranges) == [i \in 1..Len(ranges) |-> ranges[i].end - ranges[i].begin]

\* C8: for every compressed_size > 0 the chunk ranges generated are non-empty,
\* at most CHUNK_SIZE long, pairwise disjoint, and cover exactly
\* [0, compressed_size), so their lengths sum to compressed_size.
C8_Partition ==
    (plan.st \in {"done", "panic"} /\ plan.len > 0) =>
        /\ \A i \in 1..Len(plan.ranges) :
             /\ plan.ranges[i].begin < plan.ranges[i].end
             /\ plan.ranges[i].end - plan.ranges[i].begin <= CHUNK_SIZE
             /\ plan.ranges[i].end <= plan.len
        /\ \A k \in 0..(plan.len - 1) : Cardinality(Covering(plan.ranges, k)) = 1
        /\ SumSeq(RangeLengths(plan.ranges)) = plan.len

\* C9: a chunk task that was answered 503 any number of times, and otherwise
\* only by a 206 with a body of the window's length, never ends in failure.
C9_NeverGivesUp ==
    \A e \in Entries : \A c \in Chunks(e) :
        chunk[e][c].only503 => chunk[e][c].st \notin {"panic", "io", "req"}

\* C10: the delay slept after the attempt with retry counter r is
\* RETRY_WAIT_BASE * 2^r, and larger than the delay slept before it.
C10_Backoff ==
    \A e \in Entries : \A c \in Chunks(e) :
        chunk[e][c].st = "sleep" =>
            /\ chunk[e][c].delay = RETRY_WAIT_BASE * Pow2(chunk[e][c].retry)
            /\ (chunk[e][c].retry > 0 => chunk[e][c].delay > chunk[e][c].prev)

\* no byte of the window of chunk task t is written in the staging file f
WindowUntouched(f, t) ==
    \A k \in (t.begin + 1)..(t.begin + t.size) : (f.ex /\ k <= Len(f.data)) => f.data[k] = 0

\* C11: a chunk task whose last GET answer is a status other than 206 (a 200
\* with the full body in particular) has not copied anything into its window,
\* has not completed, and sleeps the back-off delay or has sent the request
\* again after it.
C11_Non206Retried ==
    \A e \in Entries : \A c \in Chunks(e) :
        chunk[e][c].ans \in {200, 503} =>
            /\ WindowUntouched(tmp[e], chunk[e][c])
            /\ chunk[e][c].st \in {"sleep", "request"}

\* the chunk tasks that ended in failure
ChunkFailed(t) == t.st \in {"io", "req", "panic"}

\* C12: no TransportError ends a chunk task, be it raised while the request is
\* sent or the response head received, or while the body of a 206 is read:
\* a chunk task that ended in failure ended on an IoError.
C12_OnlyIoTerminates ==
    \A e \in Entries : \A c \in Chunks(e) :
        /\ ~(chunk[e][c].st = "req" /\ chunk[e][c].why = "body")
        /\ (ChunkFailed(chunk[e][c]) => chunk[e][c].st = "io")

\* C13: in a second run over the same manifest and server, after a first run
\* that exited with code 0, no HEAD and no GET request is sent for any entry:
\* the size check finds every file the first run produced complete.
C13_SecondRunSkipsAll == run = 2 => (headIssued = {} /\ getIssued = {})

\* every chunk task of work item e returned Ok and tmp_path was not yet
\* removed by the decode step
AllChunksOk(e) ==
    /\ file[e].st \in {"await", "blocking", "decoding", "cancelled"}
    /\ \A c \in Chunks(e) : chunk[e][c].st = "ok"
\* byte k of tmp_path is byte k of the object, for every k below compressed_size
StagedExactly(e) ==
    \A k \in 1..ContentLength(e) :
        tmp[e].ex /\ k <= Len(tmp[e].data) /\ tmp[e].data[k] = ObjByte(k)
\* the windows of two chunk tasks of e do not meet
DisjointWindows(e) ==
    \A c \in Chunks(e) : \A d \in Chunks(e) :
        c < d => chunk[e][c].begin + chunk[e][c].size <= chunk[e][d].begin

\* C14: once all chunk tasks of a work item have completed successfully,
\* tmp_path holds the object: byte k of tmp_path is byte k of the object for
\* every k in [0, compressed_size), each window written by one chunk task.
C14_ByteExactStaging ==
    \A e \in Entries : AllChunksOk(e) => (StagedExactly(e) /\ DisjointWindows(e))

\* q is an initial part of s
IsPrefix(q, s) == Len(q) <= Len(s) /\ q = SubSeq(s, 1, Len(q))

\* C15: reading decode_sync(encode_sync(len(s), s)) never fails and yields the
\* bytes of s in order; once it has been read to the end it has yielded
\* exactly s, for every payload s (the empty one included) and every sequence
\* of read-buffer sizes.
C15_RoundTrip ==
    (codec.from = "encode" /\ codec.st = "decode") =>
        /\ codec.err = "none"
        /\ IsPrefix(codec.out, codec.s)
        /\ codec.late = <<>>
        /\ (codec.eof => codec.out = codec.s)

\* C15 witness: a payload whose size has two digits was encoded, decoded and
\* read to the end.
C15_Witness ==
    /\ codec.from = "encode"
    /\ codec.eof
    /\ Len(codec.s) = LongLen
    /\ codec.out = codec.s

\* the first 5 bytes of the decompressed stream d are not "blob "
BadMagicStream(d) == Len(d) >= 5 /\ SubSeq(d, 1, 5) # Magic
\* the positions of the NUL bytes of d after "blob "
NulsAfterMagic(d) == {p \in 6..Len(d) : d[p] = NUL}
\* the position of the NUL that ends the header of d
HeaderEnd(d) == CHOOSE p \in NulsAfterMagic(d) : \A q \in NulsAfterMagic(d) : p <= q
\* d starts with "blob " and some byte between it and the terminating NUL is
\* outside '0'..'9'
BadSizeStream(d) ==
    /\ Len(d) >= 5
    /\ SubSeq(d, 1, 5) = Magic
    /\ NulsAfterMagic(d) # {}
    /\ \E q \in 6..(HeaderEnd(d) - 1) : d[q] < 48 \/ d[q] > 57

\* C16: once the reader returned by decode_sync has been read from, a stream
\* whose first 5 decompressed bytes are not "blob " has failed with bad magic,
\* and a stream with a byte outside '0'..'9' between "blob " and the
\* terminating NUL has failed with bad size; in both cases no payload byte
\* was yielded before the error.
C16_HeaderErrors ==
    (codec.st = "decode" /\ codec.started) =>
        /\ BadMagicStream(Inflated(codec.z)) =>
               (codec.err = "BadMagic" /\ codec.out = <<>>)
        /\ BadSizeStream(Inflated(codec.z)) =>
               (codec.err = "BadSize" /\ codec.out = <<>>)

\* C16 witness: a stream "blob 9:" followed by a NUL was read and failed with
\* bad size.
C16_Witness ==
    /\ codec.st = "decode"
    /\ codec.started
    /\ Len(Inflated(codec.z)) = 8
    /\ SubSeq(Inflated(codec.z), 6, 8) = <<57, 58, NUL>>
    /\ BadSizeStream(Inflated(codec.z))
    /\ codec.err = "BadSize"

\* d begins with a header that matches blob [0-9]+\0
MatchesHeader(d) ==
    /\ Len(d) >= 5
    /\ SubSeq(d, 1, 5) = Magic
    /\ NulsAfterMagic(d) # {}
    /\ HeaderEnd(d) >= 7
    /\ \A q \in 6..(HeaderEnd(d) - 1) : d[q] >= 48 /\ d[q] <= 57
\* the bytes of d that follow its header
AfterHeader(d) == SubSeq(d, HeaderEnd(d) + 1, Len(d))

\* C17: the reader returned by decode_sync yields payload bytes only when the
\* decompressed stream begins with a header matching blob [0-9]+\0, and then
\* yields the bytes that follow the header, all of them once read to the end;
\* a stream whose header does not match yields no payload.
C17_YieldsOnlyAfterHeader ==
    codec.st = "decode" =>
        LET d == Inflated(codec.z)
        IN /\ ~MatchesHeader(d) => codec.out = <<>>
           /\ MatchesHeader(d) =>
                 /\ IsPrefix(codec.out, AfterHeader(d))
                 /\ (codec.eof => codec.out = AfterHeader(d))

MappingHolders == {ec \in ChunkIds : HoldsMapping(chunk[ec[1]][ec[2]])}

\* C19: a chunk task takes its permit before it maps tmp_path and drops its
\* mapping before it releases the permit: every live mapping belongs to a
\* task that holds a permit, so at most N_net mappings are live at a time.
C19_MappingsWithinPermits ==
    /\ MappingHolders \subseteq ChunkHolders
    /\ Cardinality(MappingHolders) <= N_net

\* C20: the permits taken from disk_sem are the permits of the decode steps
\* that run: a file task takes one after all its chunk tasks were confirmed
\* successful, keeps it for the whole decode step and returns it at its end,
\* and a file task that still waits on the network holds none.
C20_DiskPermitScope == N_disk - disk_sem = Cardinality(Decoding)

\* lib.rs 397: the entries named in an "Error processing" line on stderr; the
\* loop prints one and returns, with idx left at that entry
Reported == IF result = "Ok6" THEN {todo_entries[idx]} ELSE {}
\* the file task of e failed while try_main was still running
FailedBeforeReturn(e) == file[e].st = "err" /\ file[e].why \in {"chunk", "NotFound"}

\* C21: when the run has returned its non-zero exit code, every work item
\* whose file task failed during the run has been reported by name.
C21_EveryFailureReported ==
    result = "Ok6" => \A e \in Todo : FailedBeforeReturn(e) => e \in Reported

\* the HEAD response of work item e carried Content-Length 0
ZeroLength(e) ==
    \E k \in 1..Len(content_lengths) : todo_entries[k] = e /\ content_lengths[k] = 0

\* C22: a work item whose Content-Length is 0 gets no chunk task, its
\* dst_path is neither created nor truncated nor written from a tmp_path left
\* by an earlier run, and the run does not return 0.
C22_ZeroLengthIsError ==
    \A e \in Entries :
        ZeroLength(e) =>
            /\ chunk[e] = <<>>
            /\ file[e].st \notin {"decoding", "ok"}
            /\ dst[e] = dst0[e]
            /\ result # "Ok0"

\* the HEAD request of a work item failed: a transport error, or a response
\* whose status is outside 2xx
HeadFailed(r) == ~r.ok \/ r.status < 200 \/ r.status > 299
\* the HEAD result of e is there and the loop has not looked at it yet
HeadPending(e) == head[e].st = "done"

\* C23: a failed HEAD aborts the run with a non-zero exit code before any chunk
\* GET is issued: while the failed result waits for the loop no GET was sent
\* and the run, if it has returned, returned a non-zero code; and the loop
\* never accepts the result, so its Content-Length is never used as
\* compressed_size.
C23_HeadFailureAborts ==
    /\ [](\A e \in Entries :
             (HeadPending(e) /\ HeadFailed(head[e].res)) =>
                 /\ getIssued = {}
                 /\ result \in {"running", "Err", "Ok5", "Panic"})
    /\ [][\A e \in Entries :
             (HeadPending(e) /\ HeadFailed(head[e].res)) => head'[e].st # "taken"]_vars

\* C24: when the run has returned 0, every entry that was not skipped has
\* succeeded: all its chunk tasks returned Ok, its decode step returned Ok,
\* dst_path exists and tmp_path does not.
C24_ZeroMeansAllSucceeded ==
    result = "Ok0" =>
        \A e \in Todo :
            /\ \A c \in Chunks(e) : chunk[e][c].st = "ok"
            /\ file[e].st = "ok"
            /\ dst[e].ex
            /\ ~tmp[e].ex

\* C24 witness: a run over two work items, one of them of two chunks,
\* returned 0.
C24_Witness ==
    /\ result = "Ok0"
    /\ Len(todo_entries) = 2
    /\ \E e \in Todo : Len(chunk[e]) = 2

\* every task that was spawned has settled or was dropped
AllTasksSettled ==
    /\ pc \in {"files", "returned"}
    /\ \A e \in Entries : head[e].st \notin {"wait", "sent"}
    /\ \A e \in Entries : \A c \in Chunks(e) :
           chunk[e][c].st \in {"ok", "io", "req", "panic", "cancelled"}

\* C25: the permits missing from net_sem are exactly those of the HEAD tasks
\* and chunk tasks that hold one, one each; the available count stays within
\* 0..N_net, and once every spawned task has settled it is N_net again.
C25_PermitsConserved ==
    /\ net_sem = N_net - (Cardinality(HeadHolders) + Cardinality(ChunkHolders))
    /\ net_sem >= 0
    /\ net_sem <= N_net
    /\ (AllTasksSettled => net_sem = N_net)

\* C25 witness: the run is still going, every chunk task has settled, one of
\* them by the panic on a length mismatch and one by a flush failure, and all
\* permits are back.
C25_Witness ==
    /\ result = "running"
    /\ AllTasksSettled
    /\ \E e \in Entries : \E c \in Chunks(e) : chunk[e][c].why = "len"
    /\ \E e \in Entries : \E c \in Chunks(e) : chunk[e][c].why = "flush"
    /\ net_sem = N_net

\* the supervisor has returned and nothing is left running or waiting
Quiescent ==
    /\ result # "running"
    /\ \A e \in Entries : head[e].st \notin {"wait", "sent"}
    /\ \A e \in Entries : \A c \in Chunks(e) :
           chunk[e][c].st \in {"ok", "io", "req", "panic", "cancelled"}
    /\ \A e \in Entries : file[e].st \in {"none", "ok", "err", "cancelled"}

C27_HeaderFailureSticky ==
    (codec.st = "decode" /\ codec.err \in {"BadMagic", "BadSize"}) => codec.late = <<>>

====
